---- MODULE Spec2Model ----
(***************************************************************************)
(* Model of the SelfieBackend HTTP server (src/server.js): the four POST   *)
(* handlers /upload, /uploadSwap, /uploadResult and /generateMockups, the  *)
(* multer upload layer in front of the first two, the global error         *)
(* handler, and the Cloudinary blob store they write to.  Every `await`    *)
(* of a handler is a suspension point: one action models the code that     *)
(* runs from one suspension point to the next.                             *)
(*                                                                         *)
(* The provider-delegated mockup path of spec section 4.3 has no source    *)
(* file in src/; it is modelled from the spec as a separate specification  *)
(* (ProviderSpec).                                                         *)
(***************************************************************************)
EXTENDS Integers, Sequences, FiniteSets, TLC

\* ------------------------------------------------------------------ bounds
\* Longest products list of a /generateMockups body.
MaxProducts == 2

\* Requests handled by the one process; they interleave at their awaits.
\* Every property checked here is about one request or about a pair.
Reqs == {1, 2}

\* --------------------------------------------------------- values in play
NoImage == [kind |-> "none"]
RawImage(src) == [kind |-> "raw", src |-> src]

\* A multipart file as multer hands it over: mimetype, size in bytes, buffer.
NoFile == [mimetype |-> "", size |-> 0, buffer |-> NoImage]

\* src/server.js:87  limits: { fileSize: 10 * 1024 * 1024 }
fileSize == 10 * 1024 * 1024

\* src/server.js:75
allowedMimeTypes == {"image/jpeg", "image/png", "image/gif"}

\* src/server.js:74-81  fileFilter: cb(null, true) iff the mime type is allowed
fileFilter(file) == file.mimetype \in allowedMimeTypes

\* src/server.js:84-88  multer({storage, fileFilter, limits}): a file passes
\* the upload layer iff the filter accepts it and it is not over the limit.
MulterAccepts(file) == fileFilter(file) /\ file.size <= fileSize

\* Files a client may send (two of them share their bytes).
FilePool ==
  { [mimetype |-> "image/jpeg", size |-> 2048,         buffer |-> RawImage("selfie")],
    [mimetype |-> "image/png",  size |-> fileSize,     buffer |-> RawImage("selfie")],
    [mimetype |-> "image/png",  size |-> fileSize + 1, buffer |-> RawImage("big")],
    [mimetype |-> "text/plain", size |-> 2048,         buffer |-> RawImage("text")] }

\* src/server.js:201-209  overlayConfig
overlayConfig ==
  [ n \in {"T-Shirt", "Mug", "Phone Case", "Poster", "Hoodie", "Tote Bag"} |->
      CASE n = "T-Shirt"    -> [x |-> 100, y |-> 150, width |-> 300, height |-> 300]
        [] n = "Mug"        -> [x |-> 50,  y |-> 50,  width |-> 200, height |-> 200]
        [] n = "Phone Case" -> [x |-> 80,  y |-> 100, width |-> 240, height |-> 240]
        [] n = "Poster"     -> [x |-> 150, y |-> 200, width |-> 500, height |-> 500]
        [] n = "Hoodie"     -> [x |-> 100, y |-> 150, width |-> 300, height |-> 300]
        [] n = "Tote Bag"   -> [x |-> 80,  y |-> 100, width |-> 240, height |-> 240] ]

\* src/server.js:225-226  const config = overlayConfig[name]; if (!config) ...
HasConfig(name) == name \in DOMAIN overlayConfig

\* Products a client may name in a /generateMockups body.
ProductPool ==
  { [id |-> 1, name |-> "T-Shirt", baseImageUrl |-> "https://x/shirt.jpg"],
    [id |-> 2, name |-> "Unknown", baseImageUrl |-> "https://x/u.jpg"],
    [id |-> 3, name |-> "Mug",     baseImageUrl |-> "https://x/mug.jpg"] }

\* Lists of distinct pool products, up to MaxProducts long.
ProductLists ==
  UNION { { s \in [1..n -> ProductPool] : \A a, b \in 1..n : a # b => s[a] # s[b] }
          : n \in 0..MaxProducts }

\* req.body.products: absent, present but not an array, or an array.
ProductsValues ==
  { [kind |-> "missing", items |-> <<>>], [kind |-> "notArray", items |-> <<>>] }
  \cup { [kind |-> "array", items |-> s] : s \in ProductLists }

\* "" is a missing (falsy) URL.  Each call that names a result image names
\* its own: the first request the one at x, any other the one at y.
ResultImageUrls == {"", "https://x/result.jpg", "https://y/result.jpg"}
ResultImageUrlsOf(r) ==
  {"", IF r = 1 THEN "https://x/result.jpg" ELSE "https://y/result.jpg"}

\* Outcomes of the external calls a handler awaits.
FetchOutcomes == {"ok", "notok", "throw"}
CallOutcomes == {"ok", "throw"}

\* --------------------------------------------------------------- helpers
\* A generator that hands out the same token on every call.
uuidv4_Fixed(n) == 1

\* src/server.js:8  uuidv4(): the token of the (n+1)-th call; tokens of
\* different calls differ.
uuidv4(n) == n + 1

\* src/server.js:256-257  `mockups/${uuidv4()}` and path.parse(...).name
PublicIdPath(folder, token) == <<folder, token>>
PathName(p) == p[Len(p)]

\* src/server.js:48-68  result.secure_url of an upload under folder/public_id
SecureUrl(folder, publicId) == <<"https://res.cloudinary.com", folder, publicId>>

\* src/server.js:242-244  sharp(swappedImageBuffer).resize(width, height)
Resize(image, width, height) ==
  [kind |-> "resized", input |-> image, width |-> width, height |-> height]

\* src/server.js:247-253  sharp(baseImageBuffer).composite([{input, top, left}])
Composite(base, overlay, top, left) ==
  [kind |-> "composite", base |-> base, input |-> overlay, top |-> top, left |-> left]

\* Validation that also refuses an empty products list.
Validate_NonEmpty(body) ==
  ~ (body.resultImageUrl = "" \/ body.products.kind # "array"
       \/ body.products.items = <<>>)

\* src/server.js:196  the request passes validation
Validate(body) ==
  ~ (body.resultImageUrl = "" \/ body.products.kind = "missing"
       \/ body.products.kind # "array")

\* A loop that leaves (`break`) at the first product without config.
NextProduct_Break(products, i) ==
  IF i > Len(products) THEN i
  ELSE IF HasConfig(products[i].name) THEN i
  ELSE Len(products) + 1

\* src/server.js:221-229  the loop runs on, from position i, over products
\* without an overlay config (each is skipped by `continue`) and stops at
\* the first product that has one, or past the end of the list.
RECURSIVE NextProduct(_, _)
NextProduct(products, i) ==
  IF i > Len(products) THEN i
  ELSE IF HasConfig(products[i].name) THEN i
  ELSE NextProduct(products, i + 1)

\* A push that puts the new record in front (unshift).
Push_Unshift(array, item) == <<item>> \o array

\* src/server.js:260  mockupUrls.push(...): the record goes to the end
Push(array, item) == Append(array, item)

\* src/server.js:260-264  the record pushed on mockupUrls
MockupRecord(product, mockupImageUrl) ==
  [productId |-> product.id, productName |-> product.name,
   mockupImageUrl |-> mockupImageUrl]


\* ----------------------------------------------------------------- state
VARIABLES
  endpoint,   \* per request: the route that handles it, "" before it arrives
  body,       \* per request: req.body
  files,      \* per request: req.files / req.file as the client sent them
  pc,         \* per request: the await its handler is suspended at
  res,        \* per request: status, number of responses sent, JSON body
  loc,        \* per request: the handler's local variables
  fetchLog,   \* per request: the fetch() calls it issued, in order
  work,       \* per request: the state of each product's work item
  fetched,    \* per request: outcome of its result-image / resultUrl fetch
  threw,      \* per request: the awaited call whose rejection reached catch
  uuids,      \* number of uuidv4() calls made so far by the process
  writes,     \* the blob store: uploads that succeeded, in order
  task,       \* provider path: per product, its render task
  settled,    \* provider path: every work item has settled and was collected
  results     \* provider path: the collection the orchestrator returns

vars == <<endpoint, body, files, pc, res, loc, fetchLog, work, fetched, threw,
          uuids, writes, task, settled, results>>

serverVars == <<endpoint, body, files, pc, res, loc, fetchLog, work, fetched,
                threw, uuids, writes>>
providerVars == <<task, settled, results>>

NoBody == [resultUrl |-> "", resultImageUrl |-> "",
           products |-> [kind |-> "missing", items |-> <<>>]]
NoFiles == [targetImage |-> NoFile, swapImage |-> NoFile]

NoLocals ==
  [swappedImageBuffer |-> NoImage, i |-> 0, baseImageBuffer |-> NoImage,
   resizedSwappedImage |-> NoImage, compositeImage |-> NoImage,
   mockupPublicId |-> <<>>, mockupUrls |-> <<>>,
   targetPublicId |-> <<>>, swapPublicId |-> <<>>, resultPublicId |-> <<>>,
   targetImageUrl |-> <<>>, buffer |-> NoImage]

\* res.status(code).json(json): one more response sent on request r
Respond(r, code, json) ==
  res' = [res EXCEPT ![r] = [status |-> code, sends |-> @.sends + 1, json |-> json]]

\* src/server.js:48-68  uploadToCloudinary resolved: the asset is stored
Stored(r, fileBuffer, folder, publicId) ==
  Append(writes, [req |-> r, folder |-> folder, public_id |-> publicId,
                  bytes |-> fileBuffer])

products(r) == body[r].products.items

ServerInit ==
  /\ endpoint = [r \in Reqs |-> ""]
  /\ body = [r \in Reqs |-> NoBody]
  /\ files = [r \in Reqs |-> NoFiles]
  /\ pc = [r \in Reqs |-> "idle"]
  /\ res = [r \in Reqs |-> [status |-> 0, sends |-> 0, json |-> [message |-> ""]]]
  /\ loc = [r \in Reqs |-> NoLocals]
  /\ fetchLog = [r \in Reqs |-> <<>>]
  /\ work = [r \in Reqs |-> <<>>]
  /\ fetched = [r \in Reqs |-> ""]
  /\ threw = [r \in Reqs |-> ""]
  /\ uuids = 0
  /\ writes = <<>>

\* Request slot r has not been used yet: a request may arrive on it.
Arrives(r) == endpoint[r] = ""

\* ------------------------------------------------- POST /generateMockups
\* A catch block that logs the error and sends nothing.
GenerateMockups_Catch_Silent(r, call) ==
  /\ threw' = [threw EXCEPT ![r] = call]
  /\ pc' = [pc EXCEPT ![r] = "done"]
  /\ UNCHANGED res

\* src/server.js:272-275  catch (error): 500
GenerateMockups_Catch(r, call) ==
  /\ Respond(r, 500, [message |-> "Error generating mockups."])
  /\ threw' = [threw EXCEPT ![r] = call]
  /\ pc' = [pc EXCEPT ![r] = "done"]

\* The loop with the result image fetched again for each product.
GenerateMockups_Loop_Refetch(r, from, newLoc, newWork) ==
  LET k == NextProduct(products(r), from)
      w == [j \in 1..Len(products(r)) |->
              IF j >= from /\ j < k THEN "skipped" ELSE newWork[j]]
  IN IF k > Len(products(r))
     THEN /\ loc' = [loc EXCEPT ![r] = newLoc]
          /\ work' = [work EXCEPT ![r] = w]
          /\ Respond(r, 200, [message |-> "Mockups generated successfully!",
                              mockupUrls |-> newLoc.mockupUrls])
          /\ pc' = [pc EXCEPT ![r] = "done"]
          /\ UNCHANGED fetchLog
     ELSE /\ loc' = [loc EXCEPT ![r] = [newLoc EXCEPT !.i = k]]
          /\ work' = [work EXCEPT ![r] = [w EXCEPT ![k] = "running"]]
          /\ fetchLog' = [fetchLog EXCEPT ![r] =
                @ \o << [what |-> "resultImageUrl", url |-> body[r].resultImageUrl],
                        [what |-> "baseImageUrl",
                         url |-> products(r)[k].baseImageUrl] >>]
          /\ pc' = [pc EXCEPT ![r] = "fetchBase"]
          /\ UNCHANGED res

\* The loop with the 200 response sent from inside it, after the first record.
GenerateMockups_Loop_EarlyReturn(r, from, newLoc, newWork) ==
  LET k == NextProduct(products(r), from)
      w == [j \in 1..Len(products(r)) |->
              IF j >= from /\ j < k /\ newLoc.mockupUrls = <<>>
              THEN "skipped" ELSE newWork[j]]
  IN IF k > Len(products(r)) \/ newLoc.mockupUrls # <<>>
     THEN /\ loc' = [loc EXCEPT ![r] = newLoc]
          /\ work' = [work EXCEPT ![r] = w]
          /\ Respond(r, 200, [message |-> "Mockups generated successfully!",
                              mockupUrls |-> newLoc.mockupUrls])
          /\ pc' = [pc EXCEPT ![r] = "done"]
          /\ UNCHANGED fetchLog
     ELSE /\ loc' = [loc EXCEPT ![r] = [newLoc EXCEPT !.i = k]]
          /\ work' = [work EXCEPT ![r] = [w EXCEPT ![k] = "running"]]
          /\ fetchLog' = [fetchLog EXCEPT ![r] =
                Append(@, [what |-> "baseImageUrl",
                           url |-> products(r)[k].baseImageUrl])]
          /\ pc' = [pc EXCEPT ![r] = "fetchBase"]
          /\ UNCHANGED res

\* src/server.js:221-239 and 267-270: the for-loop taken up at position
\* `from` with locals newLoc: skip products without config, then either
\* issue the next base-image fetch or leave the loop and answer 200.
GenerateMockups_Loop(r, from, newLoc, newWork) ==
  LET k == NextProduct(products(r), from)
      w == [j \in 1..Len(products(r)) |->
              IF j >= from /\ j < k THEN "skipped" ELSE newWork[j]]
  IN IF k > Len(products(r))
     THEN /\ loc' = [loc EXCEPT ![r] = newLoc]
          /\ work' = [work EXCEPT ![r] = w]
          /\ Respond(r, 200, [message |-> "Mockups generated successfully!",
                              mockupUrls |-> newLoc.mockupUrls])
          /\ pc' = [pc EXCEPT ![r] = "done"]
          /\ UNCHANGED fetchLog
     ELSE /\ loc' = [loc EXCEPT ![r] = [newLoc EXCEPT !.i = k]]
          /\ work' = [work EXCEPT ![r] = [w EXCEPT ![k] = "running"]]
          /\ fetchLog' = [fetchLog EXCEPT ![r] =
                Append(@, [what |-> "baseImageUrl",
                           url |-> products(r)[k].baseImageUrl])]
          /\ pc' = [pc EXCEPT ![r] = "fetchBase"]
          /\ UNCHANGED res

\* src/server.js:192-212  the handler up to `await fetch(resultImageUrl)`
GenerateMockups(r, b) ==
  /\ Arrives(r)
  /\ endpoint' = [endpoint EXCEPT ![r] = "/generateMockups"]
  /\ body' = [body EXCEPT ![r] = b]
  /\ IF ~ Validate(b)
     THEN /\ Respond(r, 400, [message |->
                 "resultImageUrl and products array must be provided."])
          /\ pc' = [pc EXCEPT ![r] = "done"]
          /\ UNCHANGED <<fetchLog, work>>
     ELSE /\ fetchLog' = [fetchLog EXCEPT ![r] =
                Append(@, [what |-> "resultImageUrl", url |-> b.resultImageUrl])]
          /\ work' = [work EXCEPT ![r] = [j \in 1..Len(b.products.items) |-> "notStarted"]]
          /\ pc' = [pc EXCEPT ![r] = "fetchResult"]
          /\ UNCHANGED res
  /\ UNCHANGED <<files, loc, fetched, threw, uuids, writes, providerVars>>

\* src/server.js:212-216  fetch(resultImageUrl) settled
GenerateMockups_ResultFetched(r, o) ==
  /\ endpoint[r] = "/generateMockups" /\ pc[r] = "fetchResult"
  /\ fetched' = [fetched EXCEPT ![r] = o]
  /\ CASE o = "throw" -> GenerateMockups_Catch(r, "fetch")
       [] o = "notok" -> /\ Respond(r, 400, [message |-> "Failed to fetch swapped image."])
                         /\ pc' = [pc EXCEPT ![r] = "done"]
                         /\ UNCHANGED threw
       [] o = "ok"    -> /\ pc' = [pc EXCEPT ![r] = "bufferResult"]
                         /\ UNCHANGED <<res, threw>>
  /\ UNCHANGED <<endpoint, body, files, loc, fetchLog, work, uuids, writes, providerVars>>

\* src/server.js:216-239  swappedImageResponse.buffer() settled; the loop starts
GenerateMockups_ResultBuffered(r, o) ==
  /\ endpoint[r] = "/generateMockups" /\ pc[r] = "bufferResult"
  /\ IF o = "throw"
     THEN /\ GenerateMockups_Catch(r, "buffer")
          /\ UNCHANGED <<loc, fetchLog, work>>
     ELSE /\ GenerateMockups_Loop(r, 1,
                [loc[r] EXCEPT !.swappedImageBuffer = RawImage(body[r].resultImageUrl),
                               !.mockupUrls = <<>>],
                work[r])
          /\ UNCHANGED threw
  /\ UNCHANGED <<endpoint, body, files, fetched, uuids, writes, providerVars>>

\* src/server.js:234-239  fetch(baseImageUrl) settled
GenerateMockups_BaseFetched(r, o) ==
  /\ endpoint[r] = "/generateMockups" /\ pc[r] = "fetchBase"
  /\ CASE o = "throw" -> /\ GenerateMockups_Catch(r, "fetch")
                         /\ work' = [work EXCEPT ![r][loc[r].i] = "threw"]
                         /\ UNCHANGED <<loc, fetchLog>>
       [] o = "notok" -> /\ GenerateMockups_Loop(r, loc[r].i + 1, loc[r],
                                [work[r] EXCEPT ![loc[r].i] = "notok"])
                         /\ UNCHANGED threw
       [] o = "ok"    -> /\ pc' = [pc EXCEPT ![r] = "bufferBase"]
                         /\ UNCHANGED <<res, threw, loc, fetchLog, work>>
  /\ UNCHANGED <<endpoint, body, files, fetched, uuids, writes, providerVars>>

\* src/server.js:239-244  baseImageResponse.buffer() settled
GenerateMockups_BaseBuffered(r, o) ==
  /\ endpoint[r] = "/generateMockups" /\ pc[r] = "bufferBase"
  /\ IF o = "throw"
     THEN /\ GenerateMockups_Catch(r, "buffer")
          /\ work' = [work EXCEPT ![r][loc[r].i] = "threw"]
          /\ UNCHANGED loc
     ELSE /\ loc' = [loc EXCEPT ![r].baseImageBuffer =
                        RawImage(products(r)[loc[r].i].baseImageUrl)]
          /\ pc' = [pc EXCEPT ![r] = "resize"]
          /\ UNCHANGED <<res, threw, work>>
  /\ UNCHANGED <<endpoint, body, files, fetchLog, fetched, uuids, writes, providerVars>>

\* The resize with swappedImageBuffer kept in one variable of the module,
\* shared by all calls: it holds the buffer of the call that assigned it last
\* (any call that has one).
GenerateMockups_Resized_Shared(r, o) ==
  /\ endpoint[r] = "/generateMockups" /\ pc[r] = "resize"
  /\ IF o = "throw"
     THEN /\ GenerateMockups_Catch(r, "resize")
          /\ work' = [work EXCEPT ![r][loc[r].i] = "threw"]
          /\ UNCHANGED loc
     ELSE /\ \E q \in Reqs :
               /\ loc[q].swappedImageBuffer # NoImage
               /\ LET config == overlayConfig[products(r)[loc[r].i].name]
                  IN loc' = [loc EXCEPT ![r].resizedSwappedImage =
                        Resize(loc[q].swappedImageBuffer, config.width, config.height)]
          /\ pc' = [pc EXCEPT ![r] = "composite"]
          /\ UNCHANGED <<res, threw, work>>
  /\ UNCHANGED <<endpoint, body, files, fetchLog, fetched, uuids, writes, providerVars>>

\* src/server.js:242-253  sharp(swappedImageBuffer).resize(...).toBuffer() settled
GenerateMockups_Resized(r, o) ==
  /\ endpoint[r] = "/generateMockups" /\ pc[r] = "resize"
  /\ IF o = "throw"
     THEN /\ GenerateMockups_Catch(r, "resize")
          /\ work' = [work EXCEPT ![r][loc[r].i] = "threw"]
          /\ UNCHANGED loc
     ELSE /\ LET config == overlayConfig[products(r)[loc[r].i].name]
             IN loc' = [loc EXCEPT ![r].resizedSwappedImage =
                   Resize(loc[r].swappedImageBuffer, config.width, config.height)]
          /\ pc' = [pc EXCEPT ![r] = "composite"]
          /\ UNCHANGED <<res, threw, work>>
  /\ UNCHANGED <<endpoint, body, files, fetchLog, fetched, uuids, writes, providerVars>>

\* src/server.js:247-257  sharp(baseImageBuffer).composite(...).toBuffer()
\* settled; the public id is generated and the upload issued
GenerateMockups_Composited(r, o) ==
  /\ endpoint[r] = "/generateMockups" /\ pc[r] = "composite"
  /\ IF o = "throw"
     THEN /\ GenerateMockups_Catch(r, "composite")
          /\ work' = [work EXCEPT ![r][loc[r].i] = "threw"]
          /\ UNCHANGED <<loc, uuids>>
     ELSE /\ LET config == overlayConfig[products(r)[loc[r].i].name]
             IN loc' = [loc EXCEPT
                   ![r].compositeImage =
                       Composite(loc[r].baseImageBuffer, loc[r].resizedSwappedImage,
                                 config.y, config.x),
                   ![r].mockupPublicId = PublicIdPath("mockups", uuidv4(uuids))]
          /\ uuids' = uuids + 1
          /\ pc' = [pc EXCEPT ![r] = "upload"]
          /\ UNCHANGED <<res, threw, work>>
  /\ UNCHANGED <<endpoint, body, files, fetchLog, fetched, writes, providerVars>>

\* src/server.js:257-270  uploadToCloudinary(compositeImage, 'mockups', ...)
\* settled; the record is pushed and the loop goes on
GenerateMockups_Uploaded(r, o) ==
  /\ endpoint[r] = "/generateMockups" /\ pc[r] = "upload"
  /\ IF o = "throw"
     THEN /\ GenerateMockups_Catch(r, "upload")
          /\ work' = [work EXCEPT ![r][loc[r].i] = "threw"]
          /\ UNCHANGED <<loc, fetchLog, writes>>
     ELSE /\ writes' = Stored(r, loc[r].compositeImage, "mockups",
                              PathName(loc[r].mockupPublicId))
          /\ GenerateMockups_Loop(r, loc[r].i + 1,
                [loc[r] EXCEPT !.mockupUrls =
                    Push(@, MockupRecord(products(r)[loc[r].i],
                              SecureUrl("mockups", PathName(loc[r].mockupPublicId))))],
                [work[r] EXCEPT ![loc[r].i] = "done"])
          /\ UNCHANGED threw
  /\ UNCHANGED <<endpoint, body, files, fetched, uuids, providerVars>>

\* ------------------------------------------------------------ POST /upload
\* src/server.js:282-285  global error handler: 500
GlobalErrorHandler(r) ==
  /\ Respond(r, 500, [message |-> "An unexpected error occurred."])
  /\ pc' = [pc EXCEPT ![r] = "done"]

Present(file) == file # NoFile

\* src/server.js:91-109  upload.fields([...]) then the handler up to the
\* first `await uploadToCloudinary`
Upload(r, f) ==
  /\ Arrives(r)
  /\ endpoint' = [endpoint EXCEPT ![r] = "/upload"]
  /\ files' = [files EXCEPT ![r] = f]
  /\ IF \E file \in {f.targetImage, f.swapImage} : Present(file) /\ ~ MulterAccepts(file)
     THEN /\ GlobalErrorHandler(r)
          /\ UNCHANGED <<loc, uuids>>
     ELSE IF ~ Present(f.targetImage) \/ ~ Present(f.swapImage)
     THEN /\ Respond(r, 400, [message |->
                 "Both target image and swap image must be uploaded."])
          /\ pc' = [pc EXCEPT ![r] = "done"]
          /\ UNCHANGED <<loc, uuids>>
     ELSE /\ loc' = [loc EXCEPT
                ![r].targetPublicId = PublicIdPath("target_images", uuidv4(uuids)),
                ![r].swapPublicId = PublicIdPath("swap_images", uuidv4(uuids + 1))]
          /\ uuids' = uuids + 2
          /\ pc' = [pc EXCEPT ![r] = "uploadTarget"]
          /\ UNCHANGED res
  /\ UNCHANGED <<body, fetchLog, work, fetched, threw, writes, providerVars>>

\* src/server.js:122-125  catch (error): 500
Upload_Catch(r) ==
  /\ Respond(r, 500, [message |-> "Error uploading images to Cloudinary."])
  /\ threw' = [threw EXCEPT ![r] = "upload"]
  /\ pc' = [pc EXCEPT ![r] = "done"]

\* src/server.js:109-113  the target upload settled; the swap upload is issued
Upload_TargetUploaded(r, o) ==
  /\ endpoint[r] = "/upload" /\ pc[r] = "uploadTarget"
  /\ IF o = "throw"
     THEN /\ Upload_Catch(r)
          /\ UNCHANGED <<loc, writes>>
     ELSE /\ writes' = Stored(r, files[r].targetImage.buffer, "target_images",
                              PathName(loc[r].targetPublicId))
          /\ loc' = [loc EXCEPT ![r].targetImageUrl =
                SecureUrl("target_images", PathName(loc[r].targetPublicId))]
          /\ pc' = [pc EXCEPT ![r] = "uploadSwap"]
          /\ UNCHANGED <<res, threw>>
  /\ UNCHANGED <<endpoint, body, files, fetchLog, work, fetched, uuids, providerVars>>

\* src/server.js:113-121  the swap upload settled: 200 with both URLs
Upload_SwapUploaded(r, o) ==
  /\ endpoint[r] = "/upload" /\ pc[r] = "uploadSwap"
  /\ IF o = "throw"
     THEN /\ Upload_Catch(r)
          /\ UNCHANGED writes
     ELSE /\ writes' = Stored(r, files[r].swapImage.buffer, "swap_images",
                              PathName(loc[r].swapPublicId))
          /\ Respond(r, 200, [message |-> "Images uploaded successfully!",
                 targetImageUrl |-> loc[r].targetImageUrl,
                 swapImageUrl |-> SecureUrl("swap_images", PathName(loc[r].swapPublicId))])
          /\ pc' = [pc EXCEPT ![r] = "done"]
          /\ UNCHANGED threw
  /\ UNCHANGED <<endpoint, body, files, loc, fetchLog, work, fetched, uuids, providerVars>>

\* -------------------------------------------------------- POST /uploadSwap
\* src/server.js:129-142  upload.single('swapImage') then the handler up to
\* `await uploadToCloudinary`
UploadSwap(r, file) ==
  /\ Arrives(r)
  /\ endpoint' = [endpoint EXCEPT ![r] = "/uploadSwap"]
  /\ files' = [files EXCEPT ![r] = [targetImage |-> NoFile, swapImage |-> file]]
  /\ IF Present(file) /\ ~ MulterAccepts(file)
     THEN /\ GlobalErrorHandler(r)
          /\ UNCHANGED <<loc, uuids>>
     ELSE IF ~ Present(file)
     THEN /\ Respond(r, 400, [message |-> "Swap image must be uploaded."])
          /\ pc' = [pc EXCEPT ![r] = "done"]
          /\ UNCHANGED <<loc, uuids>>
     ELSE /\ loc' = [loc EXCEPT
                ![r].swapPublicId = PublicIdPath("swap_images", uuidv4(uuids))]
          /\ uuids' = uuids + 1
          /\ pc' = [pc EXCEPT ![r] = "uploadSwap"]
          /\ UNCHANGED res
  /\ UNCHANGED <<body, fetchLog, work, fetched, threw, writes, providerVars>>

\* src/server.js:142-153  the swap upload settled
UploadSwap_Uploaded(r, o) ==
  /\ endpoint[r] = "/uploadSwap" /\ pc[r] = "uploadSwap"
  /\ IF o = "throw"
     THEN /\ Respond(r, 500, [message |-> "Error uploading swap image to Cloudinary."])
          /\ threw' = [threw EXCEPT ![r] = "upload"]
          /\ UNCHANGED writes
     ELSE /\ writes' = Stored(r, files[r].swapImage.buffer, "swap_images",
                              PathName(loc[r].swapPublicId))
          /\ Respond(r, 200, [message |-> "Swap image uploaded successfully!",
                 swapImageUrl |-> SecureUrl("swap_images", PathName(loc[r].swapPublicId))])
          /\ UNCHANGED threw
  /\ pc' = [pc EXCEPT ![r] = "done"]
  /\ UNCHANGED <<endpoint, body, files, loc, fetchLog, work, fetched, uuids, providerVars>>

\* ------------------------------------------------------ POST /uploadResult
\* src/server.js:185-188  catch (error): 500
UploadResult_Catch(r, call) ==
  /\ Respond(r, 500, [message |-> "Error uploading result image to Cloudinary."])
  /\ threw' = [threw EXCEPT ![r] = call]
  /\ pc' = [pc EXCEPT ![r] = "done"]

\* src/server.js:157-166  the handler up to `await fetch(resultUrl)`
UploadResult(r, b) ==
  /\ Arrives(r)
  /\ endpoint' = [endpoint EXCEPT ![r] = "/uploadResult"]
  /\ body' = [body EXCEPT ![r] = b]
  /\ IF b.resultUrl = ""
     THEN /\ Respond(r, 400, [message |-> "Result URL must be provided."])
          /\ pc' = [pc EXCEPT ![r] = "done"]
          /\ UNCHANGED fetchLog
     ELSE /\ fetchLog' = [fetchLog EXCEPT ![r] =
                Append(@, [what |-> "resultUrl", url |-> b.resultUrl])]
          /\ pc' = [pc EXCEPT ![r] = "fetchResult"]
          /\ UNCHANGED res
  /\ UNCHANGED <<files, loc, work, fetched, threw, uuids, writes, providerVars>>

\* src/server.js:166-171  fetch(resultUrl) settled
UploadResult_Fetched(r, o) ==
  /\ endpoint[r] = "/uploadResult" /\ pc[r] = "fetchResult"
  /\ fetched' = [fetched EXCEPT ![r] = o]
  /\ CASE o = "throw" -> UploadResult_Catch(r, "fetch")
       [] o = "notok" -> /\ Respond(r, 400, [message |->
                                "Failed to fetch image from resultUrl."])
                         /\ pc' = [pc EXCEPT ![r] = "done"]
                         /\ UNCHANGED threw
       [] o = "ok"    -> /\ pc' = [pc EXCEPT ![r] = "bufferResult"]
                         /\ UNCHANGED <<res, threw>>
  /\ UNCHANGED <<endpoint, body, files, loc, fetchLog, work, uuids, writes, providerVars>>

\* src/server.js:171-177  response.buffer() settled; the public id is
\* generated and the upload issued
UploadResult_Buffered(r, o) ==
  /\ endpoint[r] = "/uploadResult" /\ pc[r] = "bufferResult"
  /\ IF o = "throw"
     THEN /\ UploadResult_Catch(r, "buffer")
          /\ UNCHANGED <<loc, uuids>>
     ELSE /\ loc' = [loc EXCEPT
                ![r].buffer = RawImage(body[r].resultUrl),
                ![r].resultPublicId = PublicIdPath("result_images", uuidv4(uuids))]
          /\ uuids' = uuids + 1
          /\ pc' = [pc EXCEPT ![r] = "upload"]
          /\ UNCHANGED <<res, threw>>
  /\ UNCHANGED <<endpoint, body, files, fetchLog, work, fetched, writes, providerVars>>

\* src/server.js:177-184  the upload settled
UploadResult_Uploaded(r, o) ==
  /\ endpoint[r] = "/uploadResult" /\ pc[r] = "upload"
  /\ IF o = "throw"
     THEN /\ UploadResult_Catch(r, "upload")
          /\ UNCHANGED writes
     ELSE /\ writes' = Stored(r, loc[r].buffer, "result_images",
                              PathName(loc[r].resultPublicId))
          /\ Respond(r, 200, [message |-> "Result image uploaded successfully!",
                 resultImageUrl |->
                   SecureUrl("result_images", PathName(loc[r].resultPublicId))])
          /\ pc' = [pc EXCEPT ![r] = "done"]
          /\ UNCHANGED threw
  /\ UNCHANGED <<endpoint, body, files, loc, fetchLog, work, fetched, uuids, providerVars>>

\* ------------------------------------------------------- the server's run
UploadFiles == [targetImage : FilePool \cup {NoFile}, swapImage : FilePool \cup {NoFile}]
UploadResultBodies ==
  { [NoBody EXCEPT !.resultUrl = u] : u \in {"", "https://x/swapped.jpg"} }
GenerateMockupsBodies(r) ==
  { [NoBody EXCEPT !.resultImageUrl = u, !.products = p] :
       u \in ResultImageUrls \cap ResultImageUrlsOf(r), p \in ProductsValues }

ProviderIdle ==
  /\ task = <<>>
  /\ settled = FALSE
  /\ results = <<>>

Init ==
  /\ ServerInit
  /\ ProviderIdle

Next ==
  \E r \in Reqs :
    \/ \E f \in UploadFiles : Upload(r, f)
    \/ \E o \in CallOutcomes : Upload_TargetUploaded(r, o)
    \/ \E o \in CallOutcomes : Upload_SwapUploaded(r, o)
    \/ \E file \in FilePool \cup {NoFile} : UploadSwap(r, file)
    \/ \E o \in CallOutcomes : UploadSwap_Uploaded(r, o)
    \/ \E b \in UploadResultBodies : UploadResult(r, b)
    \/ \E o \in FetchOutcomes : UploadResult_Fetched(r, o)
    \/ \E o \in CallOutcomes : UploadResult_Buffered(r, o)
    \/ \E o \in CallOutcomes : UploadResult_Uploaded(r, o)
    \/ \E b \in GenerateMockupsBodies(r) : GenerateMockups(r, b)
    \/ \E o \in FetchOutcomes : GenerateMockups_ResultFetched(r, o)
    \/ \E o \in CallOutcomes : GenerateMockups_ResultBuffered(r, o)
    \/ \E o \in FetchOutcomes : GenerateMockups_BaseFetched(r, o)
    \/ \E o \in CallOutcomes : GenerateMockups_BaseBuffered(r, o)
    \/ \E o \in CallOutcomes : GenerateMockups_Resized(r, o)
    \/ \E o \in CallOutcomes : GenerateMockups_Composited(r, o)
    \/ \E o \in CallOutcomes : GenerateMockups_Uploaded(r, o)

Spec == Init /\ [][Next]_vars

\* The continuation of request r after the external call it awaits has
\* resolved or rejected.
Settles(r) ==
  \/ \E o \in CallOutcomes : Upload_TargetUploaded(r, o)
  \/ \E o \in CallOutcomes : Upload_SwapUploaded(r, o)
  \/ \E o \in CallOutcomes : UploadSwap_Uploaded(r, o)
  \/ \E o \in FetchOutcomes : UploadResult_Fetched(r, o)
  \/ \E o \in CallOutcomes : UploadResult_Buffered(r, o)
  \/ \E o \in CallOutcomes : UploadResult_Uploaded(r, o)
  \/ \E o \in FetchOutcomes : GenerateMockups_ResultFetched(r, o)
  \/ \E o \in CallOutcomes : GenerateMockups_ResultBuffered(r, o)
  \/ \E o \in FetchOutcomes : GenerateMockups_BaseFetched(r, o)
  \/ \E o \in CallOutcomes : GenerateMockups_BaseBuffered(r, o)
  \/ \E o \in CallOutcomes : GenerateMockups_Resized(r, o)
  \/ \E o \in CallOutcomes : GenerateMockups_Composited(r, o)
  \/ \E o \in CallOutcomes : GenerateMockups_Uploaded(r, o)

\* The server under the hypothesis that every awaited external call
\* eventually resolves or rejects, upon which the event loop runs the
\* handler's continuation.  Requests need not arrive.
LiveSpec == Init /\ [][Next]_vars /\ \A r \in Reqs : WF_vars(Settles(r))

\* ------------------------------------- provider-delegated path (spec 4.3)
\* Attempt ceiling of the poll loop (spec 4.3: 10 attempts, 2 seconds apart).
MaxAttempts == 10

\* Static name -> provider variant table (spec 4.3); unmapped names are skipped.
variantMap == [n \in {"T-Shirt", "Mug"} |-> IF n = "T-Shirt" THEN 4012 ELSE 1320]

\* What one status poll may return, or that the poll request threw.
PollOutcomes == {"pending", "success", "error", "throw"}

TerminalTask == {"succeeded", "failed", "timedOut", "skipped"}

\* The provider's result URL of a task that succeeded.
ProviderResultUrl(product) == <<"https://provider/result", product.id>>

\* A poll loop that allows one attempt too many.
MayPoll_OffByOne(attempts) == attempts <= MaxAttempts

\* spec 4.3: the poll loop goes on while the attempt ceiling is not reached
MayPoll(attempts) == attempts < MaxAttempts

\* spec 4.3: state of a task after a poll that was the attempts-th one
AfterPoll(status, attempts) ==
  CASE status = "success" -> "succeeded"
    [] status = "error"   -> "failed"
    [] status = "throw"   -> "failed"
    [] OTHER              -> IF MayPoll(attempts) THEN "polling" ELSE "timedOut"

\* spec 4.3: the orchestrator filters out failed/null entries
RECURSIVE Collect(_)
Collect(tasks) ==
  IF tasks = <<>> THEN <<>>
  ELSE LET t == Head(tasks)
       IN (IF t.state = "succeeded"
           THEN << [productId |-> t.product.id, productName |-> t.product.name,
                    mockupImageUrl |-> t.resultUrl] >>
           ELSE <<>>) \o Collect(Tail(tasks))

\* One generateMockups call of the provider variant, for any products list.
ProviderInit ==
  /\ ServerInit
  /\ \E s \in ProductLists :
        task = [j \in 1..Len(s) |->
                  [product |-> s[j], state |-> "new", attempts |-> 0, resultUrl |-> <<>>]]
  /\ settled = FALSE
  /\ results = <<>>

\* spec 4.3: map the name to a variant, submit the render task
Provider_Submit(p, o) ==
  /\ p \in DOMAIN task /\ task[p].state = "new"
  /\ task' = [task EXCEPT ![p].state =
        IF task[p].product.name \notin DOMAIN variantMap THEN "skipped"
        ELSE IF o = "throw" THEN "failed" ELSE "polling"]
  /\ UNCHANGED <<settled, results, serverVars>>

\* spec 4.3: one status poll of a submitted task
Provider_Poll(p, status) ==
  /\ p \in DOMAIN task /\ task[p].state = "polling"
  /\ MayPoll(task[p].attempts)
  /\ task' = [task EXCEPT
        ![p].attempts = @ + 1,
        ![p].state = AfterPoll(status, task[p].attempts + 1),
        ![p].resultUrl = IF status = "success"
                         THEN ProviderResultUrl(task[p].product) ELSE @]
  /\ UNCHANGED <<settled, results, serverVars>>

\* spec 4.3: the orchestrator waits for all work items to settle, then
\* returns the successes
Provider_Settle ==
  /\ ~ settled
  /\ \A p \in DOMAIN task : task[p].state \in TerminalTask
  /\ settled' = TRUE
  /\ results' = Collect(task)
  /\ UNCHANGED <<task, serverVars>>

ProviderNext ==
  \/ \E p \in 1..MaxProducts, o \in CallOutcomes : Provider_Submit(p, o)
  \/ \E p \in 1..MaxProducts, status \in PollOutcomes : Provider_Poll(p, status)
  \/ Provider_Settle

ProviderSpec == ProviderInit /\ [][ProviderNext]_vars

\* ============================================================ properties
Done(r) == pc[r] = "done"
IsGenerateMockups(r) == endpoint[r] = "/generateMockups"
Status(r) == res[r].status
WritesOf(r) == { k \in DOMAIN writes : writes[k].req = r }
KnownNames == {"T-Shirt", "Mug", "Phone Case", "Poster", "Hoodie", "Tote Bag"}
StructurallyInvalid(b) ==
  b.resultImageUrl = "" \/ b.products.kind \in {"missing", "notArray"}
ReturnedRecords(r) ==
  IF IsGenerateMockups(r) /\ Done(r) /\ Status(r) = 200
  THEN res[r].json.mockupUrls ELSE <<>>
\* Products of r whose work ended without a record and without an exception.
Omitted == {"skipped", "notok"}

\* C1: once validation has passed, a product whose processing throws is the
\* only one omitted: the answer is still 200, every other product has been
\* processed, and every product that succeeded has its record in mockupUrls.
C1_PartialFailureTolerated ==
  \A r \in Reqs :
    (IsGenerateMockups(r) /\ Done(r) /\ ~ StructurallyInvalid(body[r])
       /\ \E j \in DOMAIN work[r] : work[r][j] = "threw")
    => /\ Status(r) = 200
       /\ \A j \in DOMAIN work[r] : work[r][j] \in {"done", "threw"} \cup Omitted
       /\ \A j \in DOMAIN work[r] : work[r][j] = "done" =>
             \E k \in DOMAIN ReturnedRecords(r) :
                ReturnedRecords(r)[k].productId = products(r)[j].id

\* The record the claim C2 expects for product j of request r: one upload
\* of r under mockups composited on j's base image, and its URL.
IsRecordOf(r, rec, j) ==
  /\ rec.productId = products(r)[j].id
  /\ rec.productName = products(r)[j].name
  /\ \E k \in WritesOf(r) :
        /\ writes[k].folder = "mockups"
        /\ writes[k].bytes.base = RawImage(products(r)[j].baseImageUrl)
        /\ rec.mockupImageUrl = SecureUrl("mockups", writes[k].public_id)
ExpectedProducts(r) ==
  { j \in DOMAIN products(r) :
      products(r)[j].name \in KnownNames /\ work[r][j] # "notok" }
ExactRecords(r) ==
  /\ Status(r) = 200
  /\ Len(res[r].json.mockupUrls) = Cardinality(ExpectedProducts(r))
  /\ \A j \in ExpectedProducts(r) :
        \E k \in DOMAIN res[r].json.mockupUrls :
           IsRecordOf(r, res[r].json.mockupUrls[k], j)
NothingThrew(r) ==
  threw[r] = "" /\ \A j \in DOMAIN work[r] : work[r][j] # "threw"

C3_EmptyOrMissingIs400 ==
  \A r \in Reqs :
    (IsGenerateMockups(r) /\ Done(r) /\ NothingThrew(r) /\ fetched[r] # "notok"
       /\ (body[r].resultImageUrl = ""
             \/ (body[r].products.kind = "array" /\ body[r].products.items = <<>>)))
    => Status(r) = 400

ResultFetches(r) ==
  { k \in DOMAIN fetchLog[r] : fetchLog[r][k].what = "resultImageUrl" }

C5_FetchedOnce ==
  \A r \in Reqs :
    (IsGenerateMockups(r) /\ ~ StructurallyInvalid(body[r])) =>
      /\ ResultFetches(r) = {1}
      /\ fetchLog[r][1].url = body[r].resultImageUrl
      /\ loc[r].swappedImageBuffer \in {NoImage, RawImage(body[r].resultImageUrl)}
      /\ loc[r].resizedSwappedImage # NoImage =>
            loc[r].resizedSwappedImage.input = RawImage(body[r].resultImageUrl)
      /\ \A k \in WritesOf(r) :
            writes[k].bytes.input.input = RawImage(body[r].resultImageUrl)

C5_BufferKept ==
  \A r \in Reqs :
    loc[r].swappedImageBuffer # NoImage =>
      loc'[r].swappedImageBuffer = loc[r].swappedImageBuffer

\* C5: a validated /generateMockups call fetches resultImageUrl exactly
\* once, as its first fetch (before any product), whatever the length of the
\* list; that buffer is the overlay of every product and is never modified.
C5_SingleFetch == [] C5_FetchedOnce /\ [][C5_BufferKept]_vars

C5_Witness ==
  \E r \in Reqs :
    /\ IsGenerateMockups(r) /\ Done(r) /\ Status(r) = 200
    /\ Len(products(r)) = 2
    /\ Cardinality(WritesOf(r)) = 2
    /\ Len(fetchLog[r]) = 3

\* The claim's own reading of a file the upload layer must refuse.
Disallowed(file) ==
  Present(file) /\ (file.size > 10 * 1024 * 1024
                      \/ file.mimetype \notin {"image/jpeg", "image/png", "image/gif"})

\* C6: an /upload or /uploadSwap request carrying a file over 10MB or of a
\* disallowed mime type is answered 400 and writes nothing to the blob store.
C6_Rejected400 ==
  \A r \in Reqs :
    (endpoint[r] \in {"/upload", "/uploadSwap"} /\ Done(r)
       /\ (Disallowed(files[r].targetImage) \/ Disallowed(files[r].swapImage)))
    => (Status(r) = 400 /\ WritesOf(r) = {})

\* C7: /uploadResult answers 400, and writes nothing, when resultUrl is
\* missing or its fetch fails (non-2xx status or transport error); it answers
\* 500 only when the blob-store upload fails, and 200 with resultImageUrl
\* otherwise.
C7_FetchFailureIs400 ==
  \A r \in Reqs :
    (endpoint[r] = "/uploadResult" /\ Done(r)) =>
      /\ (body[r].resultUrl = "" \/ fetched[r] \in {"notok", "throw"})
           => (Status(r) = 400 /\ WritesOf(r) = {})
      /\ Status(r) = 500 => threw[r] = "upload"
      /\ (body[r].resultUrl # "" /\ fetched[r] = "ok" /\ threw[r] # "upload")
           => (Status(r) = 200
                 /\ \E k \in WritesOf(r) :
                       res[r].json.resultImageUrl =
                         SecureUrl("result_images", writes[k].public_id))

\* The URLs a successful call returned.
Urls(r) ==
  IF ~ Done(r) \/ Status(r) # 200 THEN {}
  ELSE CASE endpoint[r] = "/upload" ->
              {res[r].json.targetImageUrl, res[r].json.swapImageUrl}
         [] endpoint[r] = "/uploadSwap" -> {res[r].json.swapImageUrl}
         [] endpoint[r] = "/uploadResult" -> {res[r].json.resultImageUrl}
         [] OTHER -> { res[r].json.mockupUrls[k].mockupImageUrl :
                         k \in DOMAIN res[r].json.mockupUrls }

\* C8: whatever the interleaving of the four endpoints, no two blob-store
\* writes use the same (folder, identifier) pair, so no asset is overwritten,
\* and the URLs a successful call returns are as many as its writes and
\* differ from the URLs of every other call.
C8_FreshIdentifiers ==
  /\ \A a, b \in DOMAIN writes :
        a # b => <<writes[a].folder, writes[a].public_id>>
                   # <<writes[b].folder, writes[b].public_id>>
  /\ \A r \in Reqs : Urls(r) # {} => Cardinality(Urls(r)) = Cardinality(WritesOf(r))
  /\ \A r, q \in Reqs : r # q => Urls(r) \cap Urls(q) = {}

C8_Witness ==
  /\ \A r \in Reqs : endpoint[r] = "/uploadSwap" /\ Done(r) /\ Status(r) = 200
  /\ \A r, q \in Reqs : files[r].swapImage.buffer = files[q].swapImage.buffer
  /\ Len(writes) = Cardinality(Reqs)

SucceededTasks == { p \in DOMAIN task : task[p].state = "succeeded" }

\* C9: in the provider path a task is polled at most 10 times; a task that
\* succeeded carries the provider's resultUrl; a task that reached error, or
\* neither success nor error by the 10th poll, has failed; and the results
\* returned are exactly the records of the tasks that succeeded, whatever
\* happened to the other products.
C9_BoundedPolling ==
  /\ \A p \in DOMAIN task :
        /\ task[p].attempts <= 10
        /\ task[p].state = "polling" => task[p].attempts < 10
        /\ task[p].state = "timedOut" => task[p].attempts = 10
        /\ task[p].state = "succeeded" =>
              task[p].resultUrl = ProviderResultUrl(task[p].product)
  /\ settled =>
        /\ Len(results) = Cardinality(SucceededTasks)
        /\ \A p \in DOMAIN task :
              task[p].state \in TerminalTask
              /\ (p \in SucceededTasks <=>
                    \E k \in DOMAIN results :
                       /\ results[k].productId = task[p].product.id
                       /\ results[k].productName = task[p].product.name
                       /\ results[k].mockupImageUrl = task[p].resultUrl)

C9_Witness ==
  /\ settled
  /\ Len(results) = 1
  /\ \E p, q \in DOMAIN task :
        /\ task[p].state = "timedOut" /\ task[p].attempts = 10
        /\ task[q].state = "succeeded"

TerminalWork == {"done", "skipped", "notok", "threw"}

StatusAlone(r) ==
  IF StructurallyInvalid(body[r]) \/ fetched[r] = "notok" THEN 400
  ELSE IF threw[r] # "" THEN 500
  ELSE 200

\* The mockup of product j of request r: j's base image with r's own result
\* image, resized to j's placement, laid over it at j's offset.
MockupAlone(r, j) ==
  LET placement == overlayConfig[products(r)[j].name]
  IN [kind |-> "composite",
      base |-> RawImage(products(r)[j].baseImageUrl),
      input |-> [kind |-> "resized", input |-> RawImage(body[r].resultImageUrl),
                 width |-> placement.width, height |-> placement.height],
      top |-> placement.y, left |-> placement.x]

C11_OwnResponse ==
  \A r \in Reqs :
    (IsGenerateMockups(r) /\ Done(r)) =>
      /\ Status(r) = StatusAlone(r)
      /\ Status(r) = 200 =>
            /\ Len(res[r].json.mockupUrls)
                 = Cardinality({ j \in DOMAIN work[r] : work[r][j] = "done" })
            /\ \A k \in DOMAIN res[r].json.mockupUrls :
                  \E j \in DOMAIN work[r], w \in WritesOf(r) :
                     /\ work[r][j] = "done"
                     /\ res[r].json.mockupUrls[k].productId = products(r)[j].id
                     /\ res[r].json.mockupUrls[k].productName = products(r)[j].name
                     /\ res[r].json.mockupUrls[k].mockupImageUrl
                          = SecureUrl("mockups", writes[w].public_id)
                     /\ writes[w].bytes = MockupAlone(r, j)

\* What belongs to request r: its handler's locals and its response.
Owned(r) == <<loc[r], res[r], work[r], fetchLog[r], pc[r]>>

C11_OneHandlerPerStep ==
  \A r, q \in Reqs :
    (r # q /\ Owned(r)' # Owned(r)) => Owned(q)' = Owned(q)

\* C11: however /generateMockups calls interleave at their awaits, each
\* call's status and records are those its own body and its own external
\* calls' outcomes give: records of its own products only, composited from
\* its own result image; a step of one call leaves the locals, the result
\* collection and the response of every other call untouched.
C11_Isolation == [] C11_OwnResponse /\ [][C11_OneHandlerPerStep]_vars

\* Two calls with different result images, both answered; the call whose
\* upload finished second had generated its public id first.
C11_Witness ==
  /\ \A r \in Reqs : IsGenerateMockups(r) /\ Status(r) = 200
                       /\ Len(res[r].json.mockupUrls) = 1
  /\ \E r, q \in Reqs : body[r].resultImageUrl # body[q].resultImageUrl
  /\ Len(writes) = 2 /\ writes[1].req # writes[2].req
  /\ writes[1].public_id > writes[2].public_id

\* Position, in the products list of r, of the product a record is about.
PositionOf(r, rec) == CHOOSE j \in DOMAIN products(r) : products(r)[j].id = rec.productId

MockupWritesOf(r) == { k \in WritesOf(r) : writes[k].folder = "mockups" }

\* C12: in every 200 response of /generateMockups the records of mockupUrls
\* are about products of the request and stand in the order of those
\* products in the request's list, and the call has made as many writes
\* under the mockups folder as it returns records.
C12_OrderAndCount ==
  \A r \in Reqs :
    (IsGenerateMockups(r) /\ res[r].sends > 0 /\ Status(r) = 200) =>
      LET urls == res[r].json.mockupUrls
      IN /\ \A k \in DOMAIN urls :
               \E j \in DOMAIN products(r) : products(r)[j].id = urls[k].productId
         /\ \A a, b \in DOMAIN urls :
               a < b => PositionOf(r, urls[a]) < PositionOf(r, urls[b])
         /\ Cardinality(MockupWritesOf(r)) = Len(urls)

C12_Witness ==
  \E r \in Reqs :
    /\ IsGenerateMockups(r) /\ res[r].sends > 0 /\ Status(r) = 200
    /\ Len(res[r].json.mockupUrls) = 2
    /\ res[r].json.mockupUrls[1].productId = 3

C13_AtMostOne ==
  \A r \in Reqs :
    /\ res[r].sends <= 1
    /\ Done(r) <=> res[r].sends = 1

C13_NoSecondResponse ==
  \A r \in Reqs : res[r].sends = 1 => res'[r] = res[r]

\* C13: a request that has arrived is eventually answered, provided every
\* external call it awaits eventually resolves or rejects, and it is
\* answered once: its handler ends exactly when the response is sent, and
\* a response that was sent is never followed by another.
C13_ExactlyOneResponse ==
  /\ [] C13_AtMostOne
  /\ [][C13_NoSecondResponse]_vars
  /\ \A r \in Reqs : (endpoint[r] # "") ~> (res[r].sends = 1)

\* Every endpoint's catch block has answered a request.
C13_Witness ==
  /\ \A r \in Reqs : Done(r) /\ res[r].sends = 1 /\ Status(r) = 500 /\ threw[r] # ""
  /\ endpoint[1] = "/generateMockups" /\ Len(work[1]) = 2 /\ work[1][2] = "threw"
  /\ endpoint[2] = "/uploadResult"

====
